---- MODULE Spec2Model ----
(***************************************************************************)
(* Weight ledger of the material-management app: the Material rows         *)
(* (totalWeight, weightCommitted, threshold), the StockMovement log, the   *)
(* catalog's availableForSale flag per variant, and the request handlers   *)
(* that mutate them: the orders/create, orders/fulfilled and               *)
(* orders/cancelled webhooks and the manual stock adjustment.  The legacy  *)
(* cancelled webhook (/webhooks/orders/cancel) and the catalog sync        *)
(* updateShopifyInventory, with its retry loop, are modelled as well, and  *)
(* so are the material edit (updateMaterial), the registration of a        *)
(* material (createMaterial) and the fulfilled webhook that goes through   *)
(* processMaterialAndInventory.  The service functions keep their balance  *)
(* in Material.runningBalance, which the model carries as a column of the  *)
(* row next to totalWeight and weightCommitted.                            *)
(*                                                                         *)
(* Weights are Floats in the source; the model uses integers (weights in   *)
(* whole units), which is enough for sums, differences, products and       *)
(* comparisons of the small values used here.                              *)
(*                                                                         *)
(* Every handler is a sequence of awaited store and catalog calls; a task  *)
(* records the handler's position (pc) and its locals.  Spec runs one      *)
(* handler at a time; SpecConc and SpecPaid let handlers interleave at     *)
(* their await points; SpecSync runs calls of updateShopifyInventory,      *)
(* SpecProcess the fulfilled webhook built on processMaterialAndInventory  *)
(* and SpecRegister registrations of materials.                            *)
(***************************************************************************)
EXTENDS Integers, Sequences, FiniteSets, TLC

\* ------------------------------------------------------------------ bounds
MaxEvents == 2      \* requests handled in one run
MaxTasks == 2       \* handlers that may be in flight together
MaxAdjust == 2      \* |quantity| typed into the adjustment form

\* --------------------------------------------------------------- the store
NULL == "null"

Materials == {"m1", "m2"}
LinkedVariants == {"v1", "v2", "v3"}
VariantIds == LinkedVariants \cup {"v9"}

\* Material rows as registered: weightCommitted defaults to 0, and createMaterial sets
\* runningBalance, the column the service functions keep, to the total weight.
InitialMaterial ==
    [m \in Materials |->
        IF m = "m1"
        THEN [totalWeight |-> 4, weightCommitted |-> 0, threshold |-> {1},
              runningBalance |-> 4]
        ELSE [totalWeight |-> 2, weightCommitted |-> 0, threshold |-> {},
              runningBalance |-> 2]]

\* MaterialVariant rows; variantId is unique.
MaterialVariantRows ==
    { [variantId |-> "v1", materialId |-> "m1", consumptionRequirement |-> 1],
      [variantId |-> "v2", materialId |-> "m1", consumptionRequirement |-> 3],
      [variantId |-> "v3", materialId |-> "m2", consumptionRequirement |-> 1] }

\* The INITIAL movement written when a material is registered.
InitialMovement(totalWeight) ==
    [type |-> "INITIAL", variantId |-> NULL, quantityChange |-> totalWeight,
     remainingStock |-> totalWeight, orderId |-> 0]

\* The line items of the orders the shop receives events for (payload.line_items).
Orders ==
    << << [variant_id |-> "v1", quantity |-> 2] >>,
       << [variant_id |-> "v2", quantity |-> 1] >>,
       << [variant_id |-> "v9", quantity |-> 1], [variant_id |-> "v3", quantity |-> 2] >>,
       << [variant_id |-> "v2", quantity |-> 2], [variant_id |-> "v1", quantity |-> 1] >>,
       << [variant_id |-> "v9", quantity |-> 1] >> >>

OrderIds == 1 .. Len(Orders)
Tasks == 1 .. MaxTasks

VARIABLES
    material,          \* Material table: id -> [totalWeight, weightCommitted, threshold]
    materialVariant,   \* MaterialVariant table: set of rows
    stockMovement,     \* StockMovement table: material id -> movements in creation order
    availableForSale,  \* catalog: variant id -> sellable flag
    task,              \* task -> the handler it runs: position and locals
    deliveries,        \* the requests answered so far, with the store as each left it
    sync               \* the updateShopifyInventory call in progress: position and locals

vars == <<material, materialVariant, stockMovement, availableForSale, task, deliveries, sync>>

\* ----------------------------------------------------------------- helpers
\* `material.threshold || 0`: a missing (or zero) threshold counts as 0.
ThresholdOr0(threshold) == IF threshold = {} THEN 0 ELSE CHOOSE x \in threshold : TRUE

\* A slip: a variant without a link is given some other variant's link.
FindManyFallsBack(variantId) ==
    LET rows == { r \in materialVariant : r.variantId = variantId }
    IN  IF rows = {} THEN { CHOOSE r \in materialVariant : TRUE } ELSE rows

\* prisma.materialVariant.findMany({ where: { variantId } })
FindMany(variantId) == {r \in materialVariant : r.variantId = variantId}

NoLink == [variantId |-> NULL, materialId |-> NULL, consumptionRequirement |-> 0]
NoMaterial == [totalWeight |-> 0, weightCommitted |-> 0, threshold |-> {}, runningBalance |-> 0]
NoEvent ==
    [kind |-> "none", orderId |-> 0, materialId |-> NULL, variantId |-> NULL,
     quantity |-> 0, fromUnit |-> NULL, toUnit |-> NULL,
     totalWeight |-> 0, selectedVariants |-> << >>]

\* An order webhook's payload: the order id and that order's line items.
OrderEvent(kind, o) == [NoEvent EXCEPT !.kind = kind, !.orderId = o]

IdleTask ==
    [pc |-> "idle", event |-> NoEvent, lineItems |-> << >>, link |-> NoLink,
     currentMaterial |-> NoMaterial, processedItems |-> << >>,
     skippedItems |-> << >>, handed |-> << >>, status |-> 0]

InFlight == {u \in Tasks : task[u].pc \notin {"idle", "done"}}

\* A further request is accepted while the run has room for it.
CanAccept(t) ==
    /\ task[t].pc \in {"idle", "done"}
    /\ Len(deliveries) + Cardinality(InFlight) < MaxEvents

\* The handler starts on a fresh payload: empty processedItems and skippedItems.
Start(t, event, items) ==
    [task EXCEPT ![t] = [IdleTask EXCEPT !.pc = "loop", !.event = event, !.lineItems = items]]

\* The for-loop moves to the next line item; the item's locals go out of scope.
NextItem(tk) ==
    [tk EXCEPT !.pc = "loop", !.lineItems = Tail(@), !.link = NoLink,
               !.currentMaterial = NoMaterial]

\* catch (error): the line item is pushed on skippedItems and the loop continues.
Skip(tk, reason) ==
    NextItem([tk EXCEPT !.skippedItems =
                  Append(@, [variantId |-> Head(tk.lineItems).variant_id, reason |-> reason])])

\* A slip: the new movement takes the place of the log's last one.
NestedCreateOverwrites(log, movement) ==
    Append(SubSeq(log, 1, Len(log) - 1), movement)

\* A slip: the counter is written and the nested movement is lost.
NestedCreateLost(log, movement) == log

\* stockMovements: { create: {...} } inside the data of prisma.material.update: the
\* movement is written by the same statement as the counter.
NestedCreate(log, movement) == Append(log, movement)

\* A prisma.$transaction either commits all of its writes or, when its callback throws,
\* none of them.
TransactionOutcomes == {"commits", "rollsBack"}

\* What an awaited admin.graphql mutation can do: succeed, answer with userErrors
\* (nothing changes, nothing is thrown), or throw.
CatalogOutcomes == {"ok", "userErrors", "throws"}

\* The getVariantProduct query that precedes productSet can throw as well (or answer
\* without a product, which throws on the read of product.id); productSet is then
\* never called.
LookupOutcomes == CatalogOutcomes \cup {"noProduct"}

\* The handler calls the availability mutation for a variant: the pair is handed to
\* the catalog, whatever the call then does.
Hand(tk, variantId, verdict) ==
    [tk EXCEPT !.handed = Append(@, [variantId |-> variantId, availableForSale |-> verdict])]

\* The record of an answered request: the store as it stands, what the handler listed
\* as processed, and the catalog's quantities.
Delivery(event, status, M, S, items) ==
    [event |-> event, status |-> status, material |-> M, stockMovement |-> S,
     processedItems |-> items, quantity |-> sync.quantity]

\* The request is answered; the store as it stands is recorded with it.
Answered(t, status) ==
    /\ task' = [task EXCEPT ![t].pc = "done", ![t].status = status,
                            ![t].link = NoLink, ![t].currentMaterial = NoMaterial]
    /\ deliveries' = Append(deliveries,
                            Delivery(task[t].event, status, material, stockMovement,
                                     task[t].processedItems))

\* return new Response("Webhook processed successfully", { status: 200 })
Respond(t, kind) ==
    /\ task[t].pc = "loop"
    /\ task[t].event.kind = kind
    /\ task[t].lineItems = << >>
    /\ Answered(t, 200)
    /\ UNCHANGED <<sync, material, materialVariant, stockMovement, availableForSale>>

\* ------------------------------------------------- orders/create (order paid)
weightToCommit(link, quantity) == link.consumptionRequirement * quantity

\* A slip: the new commitment overwrites the committed weight instead of adding to it.
newCommittedWeightOverwrites(currentMaterial, w) == w

newCommittedWeight(currentMaterial, w) == currentMaterial.weightCommitted + w

\* "Insufficient weight available": the handler throws before any write.
InsufficientWeight(currentMaterial, w) ==
    newCommittedWeight(currentMaterial, w) > currentMaterial.totalWeight

\* A slip: the commit is also taken out of the total weight.
CommittedDataTakesTotal(row, currentMaterial, w) ==
    [row EXCEPT !.weightCommitted = newCommittedWeight(currentMaterial, w),
                !.totalWeight = currentMaterial.totalWeight - w]

\* data: { weightCommitted: newCommittedWeight }
CommittedData(row, currentMaterial, w) ==
    [row EXCEPT !.weightCommitted = newCommittedWeight(currentMaterial, w)]

OrderCreatedMovement(currentMaterial, variantId, w, orderId) ==
    [type |-> "ORDER_CREATED", variantId |-> variantId, quantityChange |-> w,
     remainingStock |-> currentMaterial.totalWeight, orderId |-> orderId]

OrdersCreateReceive(t, o) ==
    /\ CanAccept(t)
    /\ task' = Start(t, OrderEvent("paid", o), Orders[o])
    /\ UNCHANGED <<sync, material, materialVariant, stockMovement, availableForSale, deliveries>>

\* findMany for the variant, findUnique for its material, then the capacity check.
OrdersCreateFind(t) ==
    /\ task[t].pc = "loop"
    /\ task[t].event.kind = "paid"
    /\ task[t].lineItems # << >>
    /\ LET item == Head(task[t].lineItems)
           rows == FindMany(item.variant_id)
       IN  IF rows = {}
           THEN task' = [task EXCEPT ![t] = NextItem(@)]
           ELSE LET mv == CHOOSE r \in rows : TRUE
                    cur == material[mv.materialId]
                IN  IF InsufficientWeight(cur, weightToCommit(mv, item.quantity))
                    THEN task' = [task EXCEPT ![t] = Skip(@, "Insufficient weight available")]
                    ELSE task' = [task EXCEPT ![t].pc = "update", ![t].link = mv,
                                              ![t].currentMaterial = cur]
    /\ UNCHANGED <<sync, material, materialVariant, stockMovement, availableForSale, deliveries>>

\* prisma.material.update: weightCommitted and the ORDER_CREATED movement in one write.
OrdersCreateUpdate(t) ==
    /\ task[t].pc = "update"
    /\ task[t].event.kind = "paid"
    /\ LET item == Head(task[t].lineItems)
           mv == task[t].link
           cur == task[t].currentMaterial
           m == mv.materialId
           w == weightToCommit(mv, item.quantity)
           updatedMaterial == CommittedData(material[m], cur, w)
           remainingWeight == cur.totalWeight - newCommittedWeight(cur, w)
           pushed == [task[t] EXCEPT !.processedItems =
                         Append(@, [materialId |-> m, variantId |-> item.variant_id,
                                    quantity |-> item.quantity, weightCommitted |-> w,
                                    totalCommitted |-> updatedMaterial.weightCommitted])]
       IN  /\ material' = [material EXCEPT ![m] = updatedMaterial]
           /\ stockMovement' = [stockMovement EXCEPT ![m] =
                  NestedCreate(@, OrderCreatedMovement(cur, item.variant_id, w, task[t].event.orderId))]
           /\ task' = [task EXCEPT ![t] =
                  IF remainingWeight <= ThresholdOr0(cur.threshold)
                  THEN [pushed EXCEPT !.pc = "catalog"]
                  ELSE NextItem(pushed)]
    /\ UNCHANGED <<sync, materialVariant, availableForSale, deliveries>>

\* A slip: a throw of the catalog call takes the item's update back, as it would if
\* the call were made inside the update's transaction.
OrdersCreateCatalogUndoes(t, outcome) ==
    /\ task[t].pc = "catalog"
    /\ task[t].event.kind = "paid"
    /\ availableForSale' =
           IF outcome = "ok"
           THEN [availableForSale EXCEPT ![Head(task[t].lineItems).variant_id] = FALSE]
           ELSE availableForSale
    /\ LET called == IF outcome = "noProduct"
                     THEN task[t]
                     ELSE Hand(task[t], Head(task[t].lineItems).variant_id, FALSE)
           m == task[t].link.materialId
       IN  /\ task' = [task EXCEPT ![t] =
                         IF outcome \in {"throws", "noProduct"}
                         THEN Skip(called, "catalog")
                         ELSE NextItem(called)]
           /\ IF outcome \in {"throws", "noProduct"}
              THEN /\ material' = [material EXCEPT ![m].weightCommitted =
                                       task[t].currentMaterial.weightCommitted]
                   /\ stockMovement' = [stockMovement EXCEPT ![m] =
                                           SubSeq(@, 1, Len(@) - 1)]
              ELSE UNCHANGED <<material, stockMovement>>
    /\ UNCHANGED <<sync, materialVariant, deliveries>>

\* productSet(availableForSale: false) when the remaining weight is at or under the threshold.
OrdersCreateCatalog(t, outcome) ==
    /\ task[t].pc = "catalog"
    /\ task[t].event.kind = "paid"
    /\ availableForSale' =
           IF outcome = "ok"
           THEN [availableForSale EXCEPT ![Head(task[t].lineItems).variant_id] = FALSE]
           ELSE availableForSale
    /\ LET called == IF outcome = "noProduct"
                     THEN task[t]
                     ELSE Hand(task[t], Head(task[t].lineItems).variant_id, FALSE)
       IN  task' = [task EXCEPT ![t] =
                       IF outcome \in {"throws", "noProduct"}
                       THEN Skip(called, "catalog")
                       ELSE NextItem(called)]
    /\ UNCHANGED <<sync, material, materialVariant, stockMovement, deliveries>>

OrdersCreate(t) ==
    \/ \E o \in OrderIds : OrdersCreateReceive(t, o)
    \/ OrdersCreateFind(t)
    \/ OrdersCreateUpdate(t)
    \/ \E outcome \in LookupOutcomes : OrdersCreateCatalog(t, outcome)
    \/ Respond(t, "paid")

\* ------------------------------------------------------------ orders/fulfilled
weightToDeduct(link, quantity) == link.consumptionRequirement * quantity

\* data: { totalWeight: currentMaterial.totalWeight - weightToDeduct }
FulfilledData(row, currentMaterial, w) ==
    [row EXCEPT !.totalWeight = currentMaterial.totalWeight - w]

FulfillmentMovement(currentMaterial, variantId, w, orderId) ==
    [type |-> "FULFILLMENT", variantId |-> variantId, quantityChange |-> -w,
     remainingStock |-> currentMaterial.totalWeight - w, orderId |-> orderId]

OrdersFulfilledReceive(t, o) ==
    /\ CanAccept(t)
    /\ task' = Start(t, OrderEvent("fulfilled", o), Orders[o])
    /\ UNCHANGED <<sync, material, materialVariant, stockMovement, availableForSale, deliveries>>

\* findMany for the variant, findUnique for its material; nothing is checked.
OrdersFulfilledFind(t) ==
    /\ task[t].pc = "loop"
    /\ task[t].event.kind = "fulfilled"
    /\ task[t].lineItems # << >>
    /\ LET item == Head(task[t].lineItems)
           rows == FindMany(item.variant_id)
       IN  IF rows = {}
           THEN task' = [task EXCEPT ![t] = NextItem(@)]
           ELSE LET mv == CHOOSE r \in rows : TRUE
                IN  task' = [task EXCEPT ![t].pc = "update", ![t].link = mv,
                                         ![t].currentMaterial = material[mv.materialId]]
    /\ UNCHANGED <<sync, material, materialVariant, stockMovement, availableForSale, deliveries>>

\* prisma.material.update: totalWeight and the FULFILLMENT movement in one write.
OrdersFulfilledUpdate(t) ==
    /\ task[t].pc = "update"
    /\ task[t].event.kind = "fulfilled"
    /\ LET item == Head(task[t].lineItems)
           mv == task[t].link
           cur == task[t].currentMaterial
           m == mv.materialId
           w == weightToDeduct(mv, item.quantity)
           updatedMaterial == FulfilledData(material[m], cur, w)
           pushed == [task[t] EXCEPT !.processedItems =
                         Append(@, [materialId |-> m, variantId |-> item.variant_id,
                                    quantity |-> item.quantity, weightDeducted |-> w,
                                    remainingWeight |-> updatedMaterial.totalWeight])]
       IN  /\ material' = [material EXCEPT ![m] = updatedMaterial]
           /\ stockMovement' = [stockMovement EXCEPT ![m] =
                  NestedCreate(@, FulfillmentMovement(cur, item.variant_id, w, task[t].event.orderId))]
           /\ task' = [task EXCEPT ![t] =
                  IF updatedMaterial.totalWeight <= ThresholdOr0(updatedMaterial.threshold)
                  THEN [pushed EXCEPT !.pc = "catalog"]
                  ELSE NextItem(pushed)]
    /\ UNCHANGED <<sync, materialVariant, availableForSale, deliveries>>

\* productSet(availableForSale: false) when the total weight is at or under the threshold.
OrdersFulfilledCatalog(t, outcome) ==
    /\ task[t].pc = "catalog"
    /\ task[t].event.kind = "fulfilled"
    /\ availableForSale' =
           IF outcome = "ok"
           THEN [availableForSale EXCEPT ![Head(task[t].lineItems).variant_id] = FALSE]
           ELSE availableForSale
    /\ LET called == IF outcome = "noProduct"
                     THEN task[t]
                     ELSE Hand(task[t], Head(task[t].lineItems).variant_id, FALSE)
       IN  task' = [task EXCEPT ![t] =
                       IF outcome \in {"throws", "noProduct"}
                       THEN Skip(called, "catalog")
                       ELSE NextItem(called)]
    /\ UNCHANGED <<sync, material, materialVariant, stockMovement, deliveries>>

OrdersFulfilled(t) ==
    \/ \E o \in OrderIds : OrdersFulfilledReceive(t, o)
    \/ OrdersFulfilledFind(t)
    \/ OrdersFulfilledUpdate(t)
    \/ \E outcome \in LookupOutcomes : OrdersFulfilledCatalog(t, outcome)
    \/ Respond(t, "fulfilled")

\* ------------------------------------------------------------ orders/cancelled
weightToRestore(link, quantity) == link.consumptionRequirement * quantity

\* A slip: the restore is subtracted from the total weight that was read.
CancelledDataFromTotal(row, currentMaterial, w) ==
    [row EXCEPT !.weightCommitted = currentMaterial.totalWeight - w]

\* data: { weightCommitted: currentMaterial.weightCommitted - weightToRestore }
CancelledData(row, currentMaterial, w) ==
    [row EXCEPT !.weightCommitted = currentMaterial.weightCommitted - w]

CancelledMovement(currentMaterial, variantId, w, orderId) ==
    [type |-> "CANCELLED", variantId |-> variantId, quantityChange |-> w,
     remainingStock |-> currentMaterial.totalWeight, orderId |-> orderId]

OrdersCancelledReceive(t, o) ==
    /\ CanAccept(t)
    /\ task' = Start(t, OrderEvent("cancelled", o), Orders[o])
    /\ UNCHANGED <<sync, material, materialVariant, stockMovement, availableForSale, deliveries>>

\* findMany for the variant, findUnique for its material; nothing is checked.
OrdersCancelledFind(t) ==
    /\ task[t].pc = "loop"
    /\ task[t].event.kind = "cancelled"
    /\ task[t].lineItems # << >>
    /\ LET item == Head(task[t].lineItems)
           rows == FindMany(item.variant_id)
       IN  IF rows = {}
           THEN task' = [task EXCEPT ![t] = NextItem(@)]
           ELSE LET mv == CHOOSE r \in rows : TRUE
                IN  task' = [task EXCEPT ![t].pc = "update", ![t].link = mv,
                                         ![t].currentMaterial = material[mv.materialId]]
    /\ UNCHANGED <<sync, material, materialVariant, stockMovement, availableForSale, deliveries>>

\* prisma.material.update: weightCommitted and the CANCELLED movement in one write.
OrdersCancelledUpdate(t) ==
    /\ task[t].pc = "update"
    /\ task[t].event.kind = "cancelled"
    /\ LET item == Head(task[t].lineItems)
           mv == task[t].link
           cur == task[t].currentMaterial
           m == mv.materialId
           w == weightToRestore(mv, item.quantity)
           updatedMaterial == CancelledData(material[m], cur, w)
           availableWeight == cur.totalWeight - updatedMaterial.weightCommitted
           pushed == [task[t] EXCEPT !.processedItems =
                         Append(@, [materialId |-> m, variantId |-> item.variant_id,
                                    quantity |-> item.quantity, weightRestored |-> w,
                                    remainingCommitted |-> updatedMaterial.weightCommitted])]
       IN  /\ material' = [material EXCEPT ![m] = updatedMaterial]
           /\ stockMovement' = [stockMovement EXCEPT ![m] =
                  NestedCreate(@, CancelledMovement(cur, item.variant_id, w, task[t].event.orderId))]
           /\ task' = [task EXCEPT ![t] =
                  IF availableWeight > ThresholdOr0(cur.threshold)
                  THEN [pushed EXCEPT !.pc = "catalog"]
                  ELSE NextItem(pushed)]
    /\ UNCHANGED <<sync, materialVariant, availableForSale, deliveries>>

\* productVariantUpdate(availableForSale: true) when the available weight is over the threshold.
OrdersCancelledCatalog(t, outcome) ==
    /\ task[t].pc = "catalog"
    /\ task[t].event.kind = "cancelled"
    /\ availableForSale' =
           IF outcome = "ok"
           THEN [availableForSale EXCEPT ![Head(task[t].lineItems).variant_id] = TRUE]
           ELSE availableForSale
    /\ LET called == Hand(task[t], Head(task[t].lineItems).variant_id, TRUE)
       IN  task' = [task EXCEPT ![t] =
                       IF outcome = "throws" THEN Skip(called, "catalog") ELSE NextItem(called)]
    /\ UNCHANGED <<sync, material, materialVariant, stockMovement, deliveries>>

OrdersCancelled(t) ==
    \/ \E o \in OrderIds : OrdersCancelledReceive(t, o)
    \/ OrdersCancelledFind(t)
    \/ OrdersCancelledUpdate(t)
    \/ \E outcome \in CatalogOutcomes : OrdersCancelledCatalog(t, outcome)
    \/ Respond(t, "cancelled")

\* ------------------------------------- orders/cancelled, at /webhooks/orders/cancel
\* updateMaterialStock: quantityChange is +quantity for CANCELLED, -quantity otherwise.
StockQuantityChange(type, quantity) == IF type = "CANCELLED" THEN quantity ELSE -quantity

\* newBalance = material.runningBalance + quantityChange * variant.consumptionRequirement
newBalance(row, link, type, quantity) ==
    row.runningBalance + StockQuantityChange(type, quantity) * link.consumptionRequirement

\* The movement updateMaterialStock and processMaterialAndInventory create: no orderId.
BalanceMovement(type, variantId, change, balance) ==
    [type |-> type, variantId |-> variantId, quantityChange |-> change,
     remainingStock |-> balance, orderId |-> 0]

OrdersCancelReceive(t, o) ==
    /\ CanAccept(t)
    /\ task' = Start(t, OrderEvent("cancel", o), Orders[o])
    /\ UNCHANGED <<sync, material, materialVariant, stockMovement, availableForSale, deliveries>>

\* findMany for the line item's variant.
OrdersCancelFind(t) ==
    /\ task[t].pc = "loop"
    /\ task[t].event.kind = "cancel"
    /\ task[t].lineItems # << >>
    /\ LET rows == FindMany(Head(task[t].lineItems).variant_id)
       IN  IF rows = {}
           THEN task' = [task EXCEPT ![t] = NextItem(@)]
           ELSE task' = [task EXCEPT ![t].pc = "update",
                                     ![t].link = CHOOSE r \in rows : TRUE]
    /\ UNCHANGED <<sync, material, materialVariant, stockMovement, availableForSale, deliveries>>

\* updateMaterialStock, one transaction: the material is read, a negative new balance
\* throws, otherwise runningBalance and the movement are written; a throw inside the
\* transaction, also one between the two writes, rolls all of it back.  Then
\* checkAndUpdateVariantAvailability throws at authenticate.admin(new Request('')).
\* There is no try/catch around a line item: either throw leaves the loop and is
\* answered with 500.
OrdersCancelUpdate(t, outcome) ==
    /\ task[t].pc = "update"
    /\ task[t].event.kind = "cancel"
    /\ LET item == Head(task[t].lineItems)
           mv == task[t].link
           m == mv.materialId
           balance == newBalance(material[m], mv, "CANCELLED", item.quantity)
       IN  IF balance < 0 \/ outcome = "rollsBack"
           THEN UNCHANGED <<material, stockMovement>>
           ELSE /\ material' = [material EXCEPT ![m].runningBalance = balance]
                /\ stockMovement' = [stockMovement EXCEPT ![m] =
                       Append(@, BalanceMovement("CANCELLED", item.variant_id,
                                                 balance - material[m].runningBalance,
                                                 balance))]
    /\ task' = [task EXCEPT ![t].pc = "done", ![t].status = 500,
                            ![t].link = NoLink, ![t].currentMaterial = NoMaterial]
    /\ deliveries' = Append(deliveries,
                            Delivery(task[t].event, 500, material', stockMovement', << >>))
    /\ UNCHANGED <<sync, materialVariant, availableForSale>>

OrdersCancel(t) ==
    \/ \E o \in OrderIds : OrdersCancelReceive(t, o)
    \/ OrdersCancelFind(t)
    \/ \E outcome \in TransactionOutcomes : OrdersCancelUpdate(t, outcome)
    \/ Respond(t, "cancel")

\* ------------------------------------------------- manual stock adjustment
\* CONVERSION_FACTORS, for the unit pairs the form is submitted with.
ConversionFactor(fromUnit, toUnit) ==
    CASE fromUnit = "kg" /\ toUnit = "g" -> 1000
      [] fromUnit = "lb" /\ toUnit = "oz" -> 16

convertWeight(value, fromUnit, toUnit) ==
    IF fromUnit = toUnit THEN value ELSE value * ConversionFactor(fromUnit, toUnit)

UnitPairs == { <<"kg", "kg">>, <<"lb", "oz">> }

\* The submitted forms: params.id, variantId (optional), quantity, fromUnit, toUnit.
\* "m0" is the id of no material.
AdjustForms ==
    { f \in [materialId : {"m1", "m0"}, variantId : {NULL, "v1"},
             quantity : (-MaxAdjust) .. MaxAdjust,
             fromUnit : {"kg", "lb"}, toUnit : {"kg", "oz"}] :
        /\ <<f.fromUnit, f.toUnit>> \in UnitPairs
        /\ f.materialId = "m0" =>
               (f.variantId = NULL /\ f.quantity = 1 /\ f.fromUnit = "kg") }

AdjustEvent(f) ==
    [NoEvent EXCEPT !.kind = "adjust", !.materialId = f.materialId,
                    !.variantId = f.variantId, !.quantity = f.quantity,
                    !.fromUnit = f.fromUnit, !.toUnit = f.toUnit]

convertedQuantity(event) == convertWeight(event.quantity, event.fromUnit, event.toUnit)

\* A slip: the comparison also refuses an adjustment that uses up exactly the available weight.
AdjustRejectedAtEqual(currentMaterial, delta) ==
    /\ delta < 0
    /\ -delta >= currentMaterial.totalWeight - currentMaterial.weightCommitted

\* "Cannot reduce total weight below committed amount"
AdjustRejected(currentMaterial, delta) ==
    /\ delta < 0
    /\ -delta > currentMaterial.totalWeight - currentMaterial.weightCommitted

\* data: { totalWeight: currentMaterial.totalWeight + convertedQuantity }
AdjustData(row, currentMaterial, delta) ==
    [row EXCEPT !.totalWeight = currentMaterial.totalWeight + delta]

AdjustmentMovement(currentMaterial, variantId, delta) ==
    [type |-> "ADJUSTMENT", variantId |-> variantId, quantityChange |-> delta,
     remainingStock |-> currentMaterial.totalWeight + delta, orderId |-> 0]

\* The form is read; a missing field or a zero quantity is answered with 400.
AdjustReceive(t, f) ==
    /\ CanAccept(t)
    /\ IF f.quantity = 0
       THEN /\ task' = [task EXCEPT ![t] =
                           [IdleTask EXCEPT !.pc = "done", !.event = AdjustEvent(f),
                                            !.status = 400]]
            /\ deliveries' = Append(deliveries,
                                    Delivery(AdjustEvent(f), 400, material, stockMovement,
                                             << >>))
       ELSE /\ task' = [task EXCEPT ![t] =
                           [IdleTask EXCEPT !.pc = "adjustFind", !.event = AdjustEvent(f)]]
            /\ UNCHANGED deliveries
    /\ UNCHANGED <<sync, material, materialVariant, stockMovement, availableForSale>>

\* findUnique for the material (404 when absent), then the check of a negative adjustment.
AdjustFind(t) ==
    /\ task[t].pc = "adjustFind"
    /\ LET ev == task[t].event
       IN  IF ev.materialId \notin DOMAIN material
           THEN Answered(t, 404)
           ELSE IF AdjustRejected(material[ev.materialId], convertedQuantity(ev))
                THEN Answered(t, 400)
                ELSE /\ task' = [task EXCEPT ![t].pc = "adjustUpdate",
                                             ![t].currentMaterial = material[ev.materialId]]
                     /\ UNCHANGED deliveries
    /\ UNCHANGED <<sync, material, materialVariant, stockMovement, availableForSale>>

\* prisma.material.update: totalWeight and the ADJUSTMENT movement in one write.
AdjustUpdate(t) ==
    /\ task[t].pc = "adjustUpdate"
    /\ LET ev == task[t].event
           cur == task[t].currentMaterial
           m == ev.materialId
           delta == convertedQuantity(ev)
       IN  /\ material' = [material EXCEPT ![m] = AdjustData(material[m], cur, delta)]
           /\ stockMovement' = [stockMovement EXCEPT ![m] =
                  NestedCreate(@, AdjustmentMovement(cur, ev.variantId, delta))]
    /\ task' = [task EXCEPT ![t].pc = "adjustAvailability"]
    /\ UNCHANGED <<sync, materialVariant, availableForSale, deliveries>>

\* With a variantId that has a link: productSet(availableForSale: shouldBeAvailable).
\* A throw is answered with 500; everything else with { success: true }.
AdjustAvailability(t, outcome) ==
    /\ task[t].pc = "adjustAvailability"
    /\ LET ev == task[t].event
           cur == task[t].currentMaterial
           rows == IF ev.variantId = NULL THEN {} ELSE FindMany(ev.variantId)
       IN  IF rows = {}
           THEN /\ Answered(t, 200)
                /\ UNCHANGED availableForSale
           ELSE LET mv == CHOOSE r \in rows : TRUE
                    availableWeight ==
                        (cur.totalWeight + convertedQuantity(ev)) - cur.weightCommitted
                    shouldBeAvailable == availableWeight >= mv.consumptionRequirement
                IN  /\ availableForSale' =
                           IF outcome = "ok"
                           THEN [availableForSale EXCEPT ![ev.variantId] = shouldBeAvailable]
                           ELSE availableForSale
                    /\ task' = [task EXCEPT ![t] =
                           [(IF outcome = "noProduct"
                             THEN task[t]
                             ELSE Hand(task[t], ev.variantId, shouldBeAvailable))
                            EXCEPT !.pc = "done",
                                   !.status = IF outcome \in {"throws", "noProduct"}
                                              THEN 500 ELSE 200,
                                   !.currentMaterial = NoMaterial]]
                    /\ deliveries' = Append(deliveries,
                           Delivery(ev, IF outcome \in {"throws", "noProduct"} THEN 500 ELSE 200,
                                    material, stockMovement, << >>))
    /\ UNCHANGED <<sync, material, materialVariant, stockMovement>>

AdjustStock(t) ==
    \/ \E f \in AdjustForms : AdjustReceive(t, f)
    \/ AdjustFind(t)
    \/ AdjustUpdate(t)
    \/ \E outcome \in LookupOutcomes : AdjustAvailability(t, outcome)

\* ------------------------------------------------------- material edit form
\* The edit page submits the material's fields and the selected variants, each with its
\* consumptionRequirement; the threshold field is left empty (undefined: not written).
\* The selection is the material's own variants ("kept"), or those with one removed
\* ("dropped"), with a variant of another material added ("linkedElsewhere") or with a
\* variant that may have no link yet added ("fresh").
SelectedVariants(materialId, selection) ==
    LET own == << [id |-> "v1", consumptionRequirement |-> 1],
                  [id |-> "v2", consumptionRequirement |-> 3] >>
    IN  IF materialId # "m1" THEN << >>
        ELSE CASE selection = "kept" -> own
               [] selection = "dropped" -> << own[1] >>
               [] selection = "linkedElsewhere" ->
                      Append(own, [id |-> "v3", consumptionRequirement |-> 1])
               [] selection = "fresh" ->
                      Append(own, [id |-> "v9", consumptionRequirement |-> 2])

EditWeights == {1, 5}

\* Edits of the weight that leave the variant selection as it is.
EditForms ==
    { f \in [materialId : {"m1", "m0"}, totalWeight : EditWeights, selection : {"kept"}] :
        f.materialId = "m0" => f.totalWeight = 1 }

\* Edits that change the variant selection.
RelinkForms ==
    [materialId : {"m1"}, totalWeight : {5},
     selection : {"dropped", "linkedElsewhere", "fresh"}]

EditEvent(f) ==
    [NoEvent EXCEPT !.kind = "edit", !.materialId = f.materialId,
                    !.totalWeight = f.totalWeight,
                    !.selectedVariants = SelectedVariants(f.materialId, f.selection)]

\* A slip: the store lets a variant have a second link.
UniqueViolationUnchecked(variants) == FALSE

\* MaterialVariant.variantId is @unique: a variant that already has a link cannot get another.
UniqueViolation(variants) ==
    \E i \in DOMAIN variants : FindMany(variants[i].id) # {}

\* The selected variants updateMaterial creates a link for: those the material does not
\* have yet.
VariantsToCreate(id, variants) ==
    SelectSeq(variants,
              LAMBDA v : \A r \in materialVariant :
                             ~(r.materialId = id /\ r.variantId = v.id))

\* tx.material.update: data { materialName, totalWeight, weightUnit, threshold, ... }
EditData(row, event) == [row EXCEPT !.totalWeight = event.totalWeight]

\* The variants no longer selected are deleted, the selected ones updated or created.
EditVariants(rows, id, variants) ==
    LET variantIds == { variants[i].id : i \in DOMAIN variants }
        existingVariants == { r \in rows : r.materialId = id }
        kept == { r \in existingVariants : r.variantId \in variantIds }
        selected(v) == CHOOSE i \in DOMAIN variants : variants[i].id = v
    IN  (rows \ existingVariants)
        \cup { [r EXCEPT !.consumptionRequirement =
                            variants[selected(r.variantId)].consumptionRequirement] :
                 r \in kept }
        \cup { [variantId |-> v, materialId |-> id,
                 consumptionRequirement |-> variants[selected(v)].consumptionRequirement] :
                 v \in variantIds \ { r.variantId : r \in existingVariants } }

EditReceive(t, f) ==
    /\ CanAccept(t)
    /\ task' = [task EXCEPT ![t] = [IdleTask EXCEPT !.pc = "editLookup", !.event = EditEvent(f)]]
    /\ UNCHANGED <<sync, material, materialVariant, stockMovement, availableForSale, deliveries>>

\* Fresh variant data is fetched for every selected variant; a failed fetch is answered
\* with 400 before anything is written.
EditLookup(t, outcome) ==
    /\ task[t].pc = "editLookup"
    /\ IF outcome = "ok"
       THEN /\ task' = [task EXCEPT ![t].pc = "editUpdate"]
            /\ UNCHANGED deliveries
       ELSE Answered(t, 400)
    /\ UNCHANGED <<sync, material, materialVariant, stockMovement, availableForSale>>

\* updateMaterial, one transaction: the material row is overwritten with the form's
\* values and the variant links are brought in line; no StockMovement is created.  An
\* unknown material id makes the update throw, and so does the creation of a link for
\* a variant that has one already; the transaction is rolled back and the request
\* answered with 400.  Success redirects.
EditUpdate(t) ==
    /\ task[t].pc = "editUpdate"
    /\ LET event == task[t].event
           id == event.materialId
           found == /\ id \in DOMAIN material
                    /\ ~UniqueViolation(VariantsToCreate(id, event.selectedVariants))
           status == IF found THEN 302 ELSE 400
       IN  /\ IF found
              THEN /\ material' = [material EXCEPT ![id] = EditData(@, event)]
                   /\ materialVariant' =
                          EditVariants(materialVariant, id, event.selectedVariants)
              ELSE UNCHANGED <<material, materialVariant>>
           /\ task' = [task EXCEPT ![t].pc = "done", ![t].status = status]
           /\ deliveries' = Append(deliveries,
                                   Delivery(event, status, material', stockMovement, << >>))
    /\ UNCHANGED <<sync, stockMovement, availableForSale>>

EditMaterialWith(t, forms) ==
    \/ \E f \in forms : EditReceive(t, f)
    \/ \E outcome \in LookupOutcomes : EditLookup(t, outcome)
    \/ EditUpdate(t)

EditMaterial(t) == EditMaterialWith(t, EditForms)

\* ------------------------------------------------------- compliance webhooks
ComplianceTopics == {"CUSTOMERS_REDACT", "SHOP_REDACT"}

\* where: { variantId: { startsWith: shop_domain } }.  The variantId of a movement is a
\* catalog variant id (or null, for INITIAL and form adjustments); none of them begins
\* with the shop's domain.
StartsWithShopDomain(variantId) == FALSE

\* prisma.stockMovement.deleteMany with that filter.
RedactMovements(log) ==
    SelectSeq(log, LAMBDA mv : ~StartsWithShopDomain(mv.variantId))

\* The compliance webhook: customer topics only log; SHOP_REDACT deletes the movements
\* its filter selects.  Answered with 200.
ComplianceWebhook(t, topic) ==
    /\ CanAccept(t)
    /\ stockMovement' =
           IF topic = "SHOP_REDACT"
           THEN [m \in DOMAIN stockMovement |-> RedactMovements(stockMovement[m])]
           ELSE stockMovement
    /\ task' = [task EXCEPT ![t] =
                   [IdleTask EXCEPT !.pc = "done", !.event = [NoEvent EXCEPT !.kind = topic],
                                    !.status = 200]]
    /\ deliveries' = Append(deliveries,
                            Delivery([NoEvent EXCEPT !.kind = topic], 200, material,
                                     stockMovement', << >>))
    /\ UNCHANGED <<sync, material, materialVariant, availableForSale>>

Compliance(t) == \E topic \in ComplianceTopics : ComplianceWebhook(t, topic)

\* ------------------------------------------------------ material registration
\* The ids prisma gives to new Material rows (cuid): the first one not in use.
NewIds == <<"m3", "m4">>

RegisterWeights == {0, 3, 5}

\* What the new-material form hands to createMaterial: the total weight, the optional
\* threshold and the selected variants with their consumptionRequirement.
CreateForms ==
    [totalWeight : RegisterWeights, threshold : {{}, {1}},
     variants : { << >>,
                  << [id |-> "v9", consumptionRequirement |-> 2] >>,
                  << [id |-> "v1", consumptionRequirement |-> 1] >> }]

CreateEvent(data, id) ==
    [NoEvent EXCEPT !.kind = "create", !.materialId = id,
                    !.totalWeight = data.totalWeight, !.selectedVariants = data.variants]

\* A slip: the new material starts with all of its weight committed.
CreateDataCommitsAll(data) ==
    [totalWeight |-> data.totalWeight, weightCommitted |-> data.totalWeight,
     threshold |-> data.threshold, runningBalance |-> data.totalWeight]

\* tx.material.create: weightCommitted is not named and takes the schema's default, 0.
CreateData(data) ==
    [totalWeight |-> data.totalWeight, weightCommitted |-> 0,
     threshold |-> data.threshold, runningBalance |-> data.totalWeight]

\* tx.materialVariant.create for every selected variant.
CreateVariants(id, variants) ==
    { [variantId |-> variants[i].id, materialId |-> id,
       consumptionRequirement |-> variants[i].consumptionRequirement] : i \in DOMAIN variants }

\* A slip: the Material row is created with the global client instead of tx, so it
\* stays when the transaction is rolled back.
CreatedOutsideTransaction(M, id, data) == (id :> CreateData(data)) @@ M

\* The materials a rolled-back transaction leaves: tx.material.create goes with it.
RolledBack(M, id, data) == M

\* createMaterial, one transaction: the Material row, a MaterialVariant row for every
\* selected variant (after its data was fetched from the catalog) and the INITIAL
\* movement.  A failed fetch, a variant that is already linked or any other throw rolls
\* the whole transaction back and is rethrown to the route.
createMaterial(data, lookup, outcome) ==
    /\ Len(deliveries) < MaxEvents
    /\ InFlight = {}
    /\ \E k \in DOMAIN NewIds :
          /\ NewIds[k] \notin DOMAIN material
          /\ \A j \in 1 .. k - 1 : NewIds[j] \in DOMAIN material
          /\ LET id == NewIds[k]
                 thrown == \/ data.variants # << >> /\ lookup # "ok"
                           \/ UniqueViolation(data.variants)
                           \/ outcome = "rollsBack"
             IN  IF thrown
                 THEN /\ material' = RolledBack(material, id, data)
                      /\ deliveries' = Append(deliveries,
                             Delivery(CreateEvent(data, NULL), 400, material', stockMovement,
                                      << >>))
                      /\ UNCHANGED <<materialVariant, stockMovement>>
                 ELSE /\ material' = (id :> CreateData(data)) @@ material
                      /\ materialVariant' =
                             materialVariant \cup CreateVariants(id, data.variants)
                      /\ stockMovement' =
                             (id :> << InitialMovement(data.totalWeight) >>) @@ stockMovement
                      /\ deliveries' = Append(deliveries,
                             Delivery(CreateEvent(data, id), 302, material', stockMovement',
                                      << >>))
    /\ UNCHANGED <<sync, availableForSale, task>>

\* ------------------------------------------- catalog sync: updateShopifyInventory
MAX_RETRIES == 3

NoResult == [inventoryUpdated |-> FALSE, isOutOfStock |-> FALSE, error |-> NULL]

\* No call in progress.  attempts lists what each inventorySetQuantities call of the
\* current call did and writes the variables it was sent with, waits the back-off before
\* each retry (seconds), quantity is the catalog's available quantity of each variant's
\* inventory item, level what STEP 2 found ({}: no inventory level) and activation what the
\* inventoryActivate of STEP 3 answered.
IdleSync ==
    [pc |-> "idle", isOutOfStock |-> FALSE, currentQuantity |-> 0, retryCount |-> 0,
     success |-> FALSE, attempts |-> << >>, writes |-> << >>, waits |-> << >>,
     variantId |-> NULL, quantity |-> [v \in VariantIds |-> 1], level |-> {},
     activation |-> NULL, result |-> NoResult]

\* return { inventoryUpdated: true, isOutOfStock }
SyncReturns(sy) ==
    [sy EXCEPT !.pc = "returned",
               !.result = [inventoryUpdated |-> TRUE, isOutOfStock |-> sy.isOutOfStock,
                           error |-> NULL]]

\* A slip: without the outer catch the error leaves the function.
SyncPropagates(sy, error) == [sy EXCEPT !.pc = "thrown"]

\* The outer catch: return { inventoryUpdated: false, isOutOfStock, error }
SyncFails(sy, error) ==
    [sy EXCEPT !.pc = "returned",
               !.result = [inventoryUpdated |-> FALSE, isOutOfStock |-> sy.isOutOfStock,
                           error |-> error]]

\* isConcurrentError && retryCount < MAX_RETRIES - 1
ConcurrentRetry(outcome, retryCount) ==
    outcome = "concurrent" /\ retryCount < MAX_RETRIES - 1

\* A slip: the inner catch gives up one failure too late.
MaxRetriesReachedLate(retryCount) == retryCount >= MAX_RETRIES

\* The inner catch: if (retryCount >= MAX_RETRIES - 1) throw error
MaxRetriesReached(retryCount) == retryCount >= MAX_RETRIES - 1

\* Math.pow(2, retryCount) seconds
Backoff(retryCount) == 2 ^ retryCount

\* while (retryCount < MAX_RETRIES && !success)
WhileRetrying(sy) ==
    IF sy.retryCount < MAX_RETRIES /\ ~sy.success THEN sy ELSE SyncReturns(sy)

\* A call starts with fresh locals; the catalog keeps its quantity.
SyncCalled(variantId, isOutOfStock) ==
    [IdleSync EXCEPT !.pc = "fetch", !.variantId = variantId,
                     !.isOutOfStock = isOutOfStock, !.quantity = sync.quantity]

updateShopifyInventoryCall(variantId, isOutOfStock) ==
    /\ sync.pc \in {"idle", "returned"}
    /\ sync' = SyncCalled(variantId, isOutOfStock)
    /\ UNCHANGED <<material, materialVariant, stockMovement, availableForSale, task, deliveries>>

\* STEP 1: the variant's inventory item and the shop's first location.
SyncFetchVariant(outcome) ==
    /\ sync.pc = "fetch"
    /\ sync' = IF outcome = "ok" THEN [sync EXCEPT !.pc = "level"] ELSE SyncFails(sync, outcome)
    /\ UNCHANGED <<material, materialVariant, stockMovement, availableForSale, task, deliveries>>

\* STEP 2: the inventory level and its available quantity; without a level the
\* quantity counts as 0 and the level is activated first.
SyncInventoryLevel(outcome) ==
    /\ sync.pc = "level"
    /\ sync' = CASE outcome = "level" ->
                      [sync EXCEPT !.pc = "write",
                                   !.level = {sync.quantity[sync.variantId]},
                                   !.currentQuantity = sync.quantity[sync.variantId]]
                 [] outcome = "noLevel" -> [sync EXCEPT !.pc = "activate"]
                 [] OTHER -> SyncFails(sync, outcome)
    /\ UNCHANGED <<material, materialVariant, stockMovement, availableForSale, task, deliveries>>

\* A slip: only the "already exists" message is recognised.
alreadyExistsOnly(outcome) == outcome = "alreadyExists"

\* errors.some(error => message includes 'already exists' || 'already active')
alreadyExists(outcome) == outcome \in {"alreadyExists", "alreadyActive"}

\* STEP 3: inventoryActivate; "already exists" / "already active" userErrors are let through.
\* A level that was just activated holds nothing.
SyncActivate(outcome) ==
    /\ sync.pc = "activate"
    /\ LET answered == [sync EXCEPT !.activation = outcome]
       IN  sync' = IF outcome = "ok"
                   THEN [answered EXCEPT !.pc = "write", !.quantity[sync.variantId] = 0]
                   ELSE IF alreadyExists(outcome)
                        THEN [answered EXCEPT !.pc = "write"]
                        ELSE SyncFails(answered, outcome)
    /\ UNCHANGED <<material, materialVariant, stockMovement, availableForSale, task, deliveries>>

\* A slip: the quantity is set the wrong way round.
targetQuantityFlipped(isOutOfStock) == IF isOutOfStock THEN 1 ELSE 0

\* const targetQuantity = isOutOfStock ? 0 : 1
targetQuantity(isOutOfStock) == IF isOutOfStock THEN 0 ELSE 1

\* inventorySetQuantities is a compare-and-set: it can only succeed when compareQuantity
\* is the quantity the catalog holds.
CompareMatches(actual, compareQuantity) == actual = compareQuantity

\* STEP 4, one pass of the retry loop: the inventorySetQuantities call and what the
\* try and the inner catch do with its outcome.
SyncSetQuantity(outcome) ==
    /\ sync.pc = "write"
    /\ outcome = "ok" => CompareMatches(sync.quantity[sync.variantId], sync.currentQuantity)
    /\ LET variables == [quantity |-> targetQuantity(sync.isOutOfStock),
                         compareQuantity |-> sync.currentQuantity,
                         actual |-> sync.quantity[sync.variantId]]
           tried == [sync EXCEPT !.attempts = Append(@, outcome),
                                 !.writes = Append(@, variables)]
       IN  sync' =
             CASE outcome = "ok" ->
                    WhileRetrying([tried EXCEPT !.success = TRUE,
                                                !.quantity[sync.variantId] =
                                                    variables.quantity])
               [] ConcurrentRetry(outcome, sync.retryCount) ->
                    WhileRetrying([tried EXCEPT !.retryCount = @ + 1,
                                                !.waits = Append(@, Backoff(sync.retryCount))])
               [] OTHER ->
                    IF MaxRetriesReached(sync.retryCount)
                    THEN SyncFails(tried, outcome)
                    ELSE WhileRetrying([tried EXCEPT !.retryCount = @ + 1,
                                                    !.waits = Append(@, Backoff(sync.retryCount + 1))])
    /\ UNCHANGED <<material, materialVariant, stockMovement, availableForSale, task, deliveries>>

\* The quantities another writer (the merchant, another app) may leave in the catalog.
CatalogQuantities == {0, 1, 2}

\* While a call is under way somebody else changes the quantity of the same inventory item.
CatalogChange(q) ==
    /\ sync.pc \in {"level", "activate", "write"}
    /\ sync.quantity[sync.variantId] # q
    /\ sync' = [sync EXCEPT !.quantity[sync.variantId] = q]
    /\ UNCHANGED <<material, materialVariant, stockMovement, availableForSale, task, deliveries>>

\* The variants updateShopifyInventory is called for when it is exercised on its own.
SyncVariants == {"v1", "v2"}

FetchOutcomes == {"ok", "noInventoryItem", "noLocation", "throws"}
LevelOutcomes == {"level", "noLevel", "errors", "throws"}
ActivateOutcomes == {"ok", "alreadyExists", "alreadyActive", "userErrors", "errors", "throws"}
SetQuantityOutcomes == {"ok", "concurrent", "userErrors", "errors", "throws"}

updateShopifyInventory ==
    \/ \E variantId \in SyncVariants, isOutOfStock \in BOOLEAN :
           updateShopifyInventoryCall(variantId, isOutOfStock)
    \/ \E outcome \in FetchOutcomes : SyncFetchVariant(outcome)
    \/ \E outcome \in LevelOutcomes : SyncInventoryLevel(outcome)
    \/ \E outcome \in ActivateOutcomes : SyncActivate(outcome)
    \/ \E outcome \in SetQuantityOutcomes : SyncSetQuantity(outcome)

\* ------------------- orders/fulfilled handled through processMaterialAndInventory
\* The webhook that hands every linked line item to processMaterialAndInventory with
\* type FULFILLMENT and records what came back.
ProcessReceive(t, o) ==
    /\ CanAccept(t)
    /\ task' = Start(t, OrderEvent("process", o), Orders[o])
    /\ UNCHANGED <<sync, material, materialVariant, stockMovement, availableForSale, deliveries>>

ProcessFind(t) ==
    /\ task[t].pc = "loop"
    /\ task[t].event.kind = "process"
    /\ task[t].lineItems # << >>
    /\ LET rows == FindMany(Head(task[t].lineItems).variant_id)
       IN  IF rows = {}
           THEN task' = [task EXCEPT ![t] = NextItem(@)]
           ELSE task' = [task EXCEPT ![t].pc = "process",
                                     ![t].link = CHOOSE r \in rows : TRUE]
    /\ UNCHANGED <<sync, material, materialVariant, stockMovement, availableForSale, deliveries>>

\* const isOutOfStock = newBalance < variant.consumptionRequirement; a balance that
\* would go negative is kept and the variant is out of stock.
ProcessOutOfStock(row, link, quantity) ==
    LET balance == newBalance(row, link, "FULFILLMENT", quantity)
    IN  balance < 0 \/ balance < link.consumptionRequirement

\* What the transaction writes to the material row.
ProcessData(row, link, quantity) ==
    LET balance == newBalance(row, link, "FULFILLMENT", quantity)
    IN  IF balance < 0 THEN row ELSE [row EXCEPT !.runningBalance = balance]

\* The movement the transaction creates: OUT_OF_STOCK with no change when the balance
\* would go negative, the fulfilment otherwise.
ProcessMovement(row, link, variantId, quantity) ==
    LET balance == newBalance(row, link, "FULFILLMENT", quantity)
    IN  IF balance < 0
        THEN BalanceMovement("OUT_OF_STOCK", variantId, 0, row.runningBalance)
        ELSE BalanceMovement("FULFILLMENT", variantId, balance - row.runningBalance, balance)

\* Inside prisma.$transaction: the material is read, the update and the movement are
\* issued on the transaction client, and updateShopifyInventory is called and awaited
\* while the transaction is still open.
ProcessBegin(t) ==
    /\ task[t].pc = "process"
    /\ sync.pc \in {"idle", "returned"}
    /\ LET item == Head(task[t].lineItems)
           mv == task[t].link
       IN  sync' = SyncCalled(item.variant_id,
                              ProcessOutOfStock(material[mv.materialId], mv, item.quantity))
    /\ task' = [task EXCEPT ![t].pc = "processSync"]
    /\ UNCHANGED <<material, materialVariant, stockMovement, availableForSale, deliveries>>

\* updateShopifyInventory has returned and so does the transaction's callback: the
\* transaction commits its two writes, or it fails to and the error reaches the catch
\* of the line item.
ProcessCommit(t, outcome) ==
    /\ task[t].pc = "processSync"
    /\ sync.pc = "returned"
    /\ LET item == Head(task[t].lineItems)
           mv == task[t].link
           m == mv.materialId
           pushed == [task[t] EXCEPT !.processedItems =
                         Append(@, [materialId |-> m, variantId |-> item.variant_id,
                                    quantity |-> item.quantity,
                                    isOutOfStock |-> sync.result.isOutOfStock,
                                    inventoryUpdated |-> sync.result.inventoryUpdated])]
       IN  IF outcome = "commits"
           THEN /\ material' = [material EXCEPT ![m] = ProcessData(@, mv, item.quantity)]
                /\ stockMovement' = [stockMovement EXCEPT ![m] =
                       Append(@, ProcessMovement(material[m], mv, item.variant_id,
                                                 item.quantity))]
                /\ task' = [task EXCEPT ![t] = NextItem(pushed)]
           ELSE /\ task' = [task EXCEPT ![t] = Skip(@, "transaction")]
                /\ UNCHANGED <<material, stockMovement>>
    /\ sync' = [IdleSync EXCEPT !.quantity = sync.quantity]
    /\ UNCHANGED <<materialVariant, availableForSale, deliveries>>

OrdersFulfilledProcess(t) ==
    \/ \E o \in OrderIds : ProcessReceive(t, o)
    \/ ProcessFind(t)
    \/ ProcessBegin(t)
    \/ \E outcome \in TransactionOutcomes : ProcessCommit(t, outcome)
    \/ Respond(t, "process")

\* The steps of a call of updateShopifyInventory that is under way.
updateShopifyInventorySteps ==
    \/ \E outcome \in FetchOutcomes : SyncFetchVariant(outcome)
    \/ \E outcome \in LevelOutcomes : SyncInventoryLevel(outcome)
    \/ \E outcome \in ActivateOutcomes : SyncActivate(outcome)
    \/ \E outcome \in SetQuantityOutcomes : SyncSetQuantity(outcome)

\* ------------------------------------------------------------ specification
Init ==
    /\ material = InitialMaterial
    /\ materialVariant = MaterialVariantRows
    /\ stockMovement = [m \in Materials |-> << InitialMovement(InitialMaterial[m].totalWeight) >>]
    /\ availableForSale = [v \in VariantIds |-> TRUE]
    /\ task = [t \in Tasks |-> IdleTask]
    /\ deliveries = << >>
    /\ sync = IdleSync

\* Requests are handled one at a time, each to completion.
Next ==
    \/ OrdersCreate(1)
    \/ OrdersFulfilled(1)
    \/ OrdersCancelled(1)
    \/ OrdersCancel(1)
    \/ AdjustStock(1)
    \/ EditMaterial(1)
    \/ Compliance(1)

Spec == Init /\ [][Next]_vars

\* Handlers of any kind run concurrently, interleaving at their awaited calls.
NextConc ==
    \E t \in Tasks :
        \/ OrdersCreate(t)
        \/ OrdersFulfilled(t)
        \/ OrdersCancelled(t)
        \/ OrdersCancel(t)
        \/ AdjustStock(t)
        \/ EditMaterial(t)
        \/ Compliance(t)

SpecConc == Init /\ [][NextConc]_vars

\* Only order-paid events are delivered, concurrently.
NextPaid == \E t \in Tasks : OrdersCreate(t)

SpecPaid == Init /\ [][NextPaid]_vars

\* Calls of updateShopifyInventory, one at a time, with other writers of the catalog.
NextSync ==
    \/ updateShopifyInventory
    \/ \E q \in CatalogQuantities : CatalogChange(q)

SpecSync == Init /\ [][NextSync]_vars

\* Fulfilled orders handled through processMaterialAndInventory, one at a time, with
\* the catalog calls each of them makes.
NextProcess ==
    \/ OrdersFulfilledProcess(1)
    \/ updateShopifyInventorySteps

SpecProcess == Init /\ [][NextProcess]_vars

\* Materials are registered and their variant selection edited, one request at a time.
NextRegister ==
    \/ \E data \in CreateForms, lookup \in LookupOutcomes, outcome \in TransactionOutcomes :
           createMaterial(data, lookup, outcome)
    \/ EditMaterialWith(1, RelinkForms)

SpecRegister == Init /\ [][NextRegister]_vars

\* ------------------------------------------------------ vocabulary of the claims
\* The line item the handler of task t is working on, its material and its weight.
CurrentItem(t) == Head(task[t].lineItems)

LinkRows(t) == FindMany(CurrentItem(t).variant_id)

ItemLink(t) == CHOOSE r \in LinkRows(t) : TRUE

ItemWeight(t) == ItemLink(t).consumptionRequirement * CurrentItem(t).quantity

\* The handler of task t, of the given kind, is about to look up its next line item,
\* and that item's variant is linked to material m.
AtItem(t, kind, m) ==
    /\ task[t].pc = "loop"
    /\ task[t].event.kind = kind
    /\ task[t].lineItems # << >>
    /\ LinkRows(t) # {}
    /\ ItemLink(t).materialId = m

\* The handler of task t, of the given kind, performs its prisma.material.update on m.
UpdateStep(t, kind, m) ==
    /\ task[t].pc = "update"
    /\ task[t].event.kind = kind
    /\ task[t].link.materialId = m
    /\ task'[t].pc # "update"

LastMovement(m) == stockMovement[m][Len(stockMovement[m])]

RECURSIVE SumOfKinds(_, _)
\* The sum of quantityChange over the movements whose type is one of kinds.
SumOfKinds(movements, kinds) ==
    IF movements = << >>
    THEN 0
    ELSE (IF Head(movements).type \in kinds THEN Head(movements).quantityChange ELSE 0)
         + SumOfKinds(Tail(movements), kinds)

\* The store before the i-th answered request, when requests are handled one at a time.
StoreBefore(i) ==
    IF i = 1
    THEN [material |-> InitialMaterial,
          stockMovement |->
              [m \in Materials |-> << InitialMovement(InitialMaterial[m].totalWeight) >>]]
    ELSE [material |-> deliveries[i - 1].material,
          stockMovement |-> deliveries[i - 1].stockMovement]

\* The counters a handler leaves when it runs alone on the counters M: the effect of
\* one line item, of a payload's line items in order, and of one request.
ApplyItem(kind, M, item) ==
    LET rows == FindMany(item.variant_id)
    IN  IF rows = {}
        THEN M
        ELSE LET mv == CHOOSE r \in rows : TRUE
                 m == mv.materialId
                 w == mv.consumptionRequirement * item.quantity
             IN  CASE kind = "paid" ->
                        IF InsufficientWeight(M[m], w)
                        THEN M
                        ELSE [M EXCEPT ![m].weightCommitted = newCommittedWeight(M[m], w)]
                   [] kind = "fulfilled" -> [M EXCEPT ![m] = FulfilledData(M[m], M[m], w)]
                   [] kind = "cancelled" -> [M EXCEPT ![m] = CancelledData(M[m], M[m], w)]

RECURSIVE ApplyItems(_, _, _)
ApplyItems(kind, M, items) ==
    IF items = << >>
    THEN M
    ELSE ApplyItems(kind, ApplyItem(kind, M, Head(items)), Tail(items))

\* The legacy cancel route run alone: the first linked line item ends the request.
RECURSIVE ApplyCancel(_, _)
ApplyCancel(M, items) ==
    IF items = << >>
    THEN M
    ELSE LET rows == FindMany(Head(items).variant_id)
         IN  IF rows = {}
             THEN ApplyCancel(M, Tail(items))
             ELSE LET mv == CHOOSE r \in rows : TRUE
                      balance == newBalance(M[mv.materialId], mv, "CANCELLED",
                                            Head(items).quantity)
                  IN  IF balance < 0
                      THEN M
                      ELSE [M EXCEPT ![mv.materialId].runningBalance = balance]

ApplyEvent(M, ev) ==
    IF ev.kind \in ComplianceTopics
    THEN M
    ELSE IF ev.kind = "cancel"
    THEN ApplyCancel(M, Orders[ev.orderId])
    ELSE IF ev.kind = "edit"
    THEN IF ev.materialId \notin DOMAIN M
         THEN M
         ELSE [M EXCEPT ![ev.materialId] = EditData(@, ev)]
    ELSE IF ev.kind = "adjust"
    THEN IF \/ ev.quantity = 0
            \/ ev.materialId \notin DOMAIN M
         THEN M
         ELSE IF AdjustRejected(M[ev.materialId], convertedQuantity(ev))
              THEN M
              ELSE [M EXCEPT ![ev.materialId] =
                       AdjustData(M[ev.materialId], M[ev.materialId], convertedQuantity(ev))]
    ELSE ApplyItems(ev.kind, M, Orders[ev.orderId])

\* The i-th answered request is a manual adjustment of an existing material.
AdjustDelivery(i) ==
    /\ deliveries[i].event.kind = "adjust"
    /\ deliveries[i].event.materialId \in Materials

\* The adjustment would leave totalWeight under weightCommitted.
BelowCommitted(row, delta) == row.totalWeight + delta < row.weightCommitted


\* --------------------------------------------------------------------- claims

C2_FulfilledReducesBoth ==
    [][\A m \in Materials :
          UpdateStep(1, "fulfilled", m) =>
              /\ material'[m].totalWeight = material[m].totalWeight - ItemWeight(1)
              /\ material'[m].weightCommitted = material[m].weightCommitted - ItemWeight(1)]_vars

\* C3: under any interleaving of concurrently handled order-paid events on one Material,
\* weightCommitted <= totalWeight, and the commits the handlers accepted (the
\* ORDER_CREATED movements) never add up to more than the Material's totalWeight.
C3_NoOversell ==
    \A m \in Materials :
        /\ material[m].weightCommitted <= material[m].totalWeight
        /\ SumOfKinds(stockMovement[m], {"ORDER_CREATED"}) <= material[m].totalWeight

\* C4: when two handlers that mutate the same Material run concurrently, the final
\* totalWeight and weightCommitted are those of running the same two handlers one after
\* the other in some order; no handler's update is lost.
C4_Serializable ==
    ( /\ Len(deliveries) = 2
      /\ InFlight = {}
      /\ \A i \in 1 .. 2 : deliveries[i].event.kind # "edit" ) =>
        material \in
            { ApplyEvent(ApplyEvent(InitialMaterial, deliveries[1].event), deliveries[2].event),
              ApplyEvent(ApplyEvent(InitialMaterial, deliveries[2].event), deliveries[1].event) }

\* C5: an order-paid line item whose weight would make weightCommitted exceed totalWeight
\* leaves both counters unchanged and appends exactly one OUT_OF_STOCK movement with
\* quantityChange = 0 for that Material.
C5_OverflowRecordsOutOfStock ==
    [][\A m \in Materials :
          ( /\ AtItem(1, "paid", m)
            /\ material[m].weightCommitted + ItemWeight(1) > material[m].totalWeight
            /\ task'[1] # task[1] ) =>
              /\ material' = material
              /\ Len(stockMovement'[m]) = Len(stockMovement[m]) + 1
              /\ stockMovement'[m][Len(stockMovement'[m])].type = "OUT_OF_STOCK"
              /\ stockMovement'[m][Len(stockMovement'[m])].quantityChange = 0]_vars

\* C6: an order-paid line item whose weight w fits (weightCommitted + w <= totalWeight)
\* is accepted, increases weightCommitted by exactly w and appends one ORDER_CREATED
\* movement with quantityChange = w.
C6_CommitAddsWeight ==
    [][\A m \in Materials :
          /\ ( /\ AtItem(1, "paid", m)
               /\ material[m].weightCommitted + ItemWeight(1) <= material[m].totalWeight
               /\ task'[1] # task[1] ) =>
                 /\ task'[1].pc = "update"
                 /\ task'[1].skippedItems = task[1].skippedItems
          /\ UpdateStep(1, "paid", m) =>
                 /\ material[m].weightCommitted + ItemWeight(1) <= material[m].totalWeight
                 /\ material'[m].weightCommitted = material[m].weightCommitted + ItemWeight(1)
                 /\ material'[m].totalWeight = material[m].totalWeight
                 /\ Len(stockMovement'[m]) = Len(stockMovement[m]) + 1
                 /\ SubSeq(stockMovement'[m], 1, Len(stockMovement[m])) = stockMovement[m]
                 /\ stockMovement'[m][Len(stockMovement'[m])].type = "ORDER_CREATED"
                 /\ stockMovement'[m][Len(stockMovement'[m])].quantityChange = ItemWeight(1)]_vars

\* A commit of positive weight has been accepted on top of an earlier commit.
C6_Witness ==
    \E m \in Materials :
        /\ Len(stockMovement[m]) = 3
        /\ LastMovement(m).type = "ORDER_CREATED"
        /\ LastMovement(m).quantityChange > 0
        /\ stockMovement[m][2].type = "ORDER_CREATED"
        /\ stockMovement[m][2].quantityChange > 0
        /\ material[m].weightCommitted =
               stockMovement[m][2].quantityChange + LastMovement(m).quantityChange

\* C7: the quantityChange values of a Material's movements, summed into the counter
\* each kind affects (INITIAL, ADJUSTMENT and FULFILLMENT into totalWeight;
\* ORDER_CREATED, CANCELLED and FULFILLMENT into weightCommitted), give the Material's
\* current totalWeight and weightCommitted.
C7_Conservation ==
    \A m \in Materials :
        /\ SumOfKinds(stockMovement[m], {"INITIAL", "ADJUSTMENT", "FULFILLMENT"})
               = material[m].totalWeight
        /\ SumOfKinds(stockMovement[m], {"ORDER_CREATED", "CANCELLED", "FULFILLMENT"})
               = material[m].weightCommitted

\* C8: an order-cancelled line item whose weight exceeds the Material's weightCommitted
\* is rejected: the counters stay unchanged (weightCommitted does not go below zero)
\* and the line item is reported as failed (pushed on skippedItems).
C8_RestoreBelowZeroRejected ==
    [][\A m \in Materials :
          ( /\ task[1].event.kind = "cancelled"
            /\ \/ AtItem(1, "cancelled", m)
               \/ task[1].pc = "update" /\ task[1].link.materialId = m
            /\ ItemWeight(1) > material[m].weightCommitted
            /\ task'[1] # task[1] ) =>
              /\ material' = material
              /\ stockMovement' = stockMovement
              /\ task'[1].pc = "loop" =>
                     Len(task'[1].skippedItems) = Len(task[1].skippedItems) + 1]_vars

\* C9: delivering the same order event (same order id and line items) twice leaves the
\* Material counters and the movement log as one delivery left them.
C9_RedeliveryIdempotent ==
    \A i \in 1 .. Len(deliveries) - 1 :
        ( /\ deliveries[i].event.kind \in {"paid", "fulfilled", "cancelled"}
          /\ deliveries[i + 1].event = deliveries[i].event ) =>
            /\ deliveries[i + 1].material = deliveries[i].material
            /\ deliveries[i + 1].stockMovement = deliveries[i].stockMovement

\* C10 as stated: a manual adjustment with signed delta is rejected, with totalWeight,
\* weightCommitted and the movement log unchanged, exactly when
\* totalWeight + delta < weightCommitted; otherwise totalWeight becomes
\* totalWeight + delta and weightCommitted is unchanged.
C10_RejectedIffBelowCommitted ==
    \A i \in 1 .. Len(deliveries) :
        AdjustDelivery(i) =>
            LET m == deliveries[i].event.materialId
                delta == convertedQuantity(deliveries[i].event)
                before == StoreBefore(i)
                below == BelowCommitted(before.material[m], delta)
            IN  /\ (deliveries[i].status = 400) <=> below
                /\ below =>
                       /\ deliveries[i].material = before.material
                       /\ deliveries[i].stockMovement = before.stockMovement
                /\ ~below =>
                       /\ deliveries[i].material[m].totalWeight =
                              before.material[m].totalWeight + delta
                       /\ deliveries[i].material[m].weightCommitted =
                              before.material[m].weightCommitted

\* C10, amended: a manual adjustment with signed delta is rejected, with totalWeight,
\* weightCommitted and the movement log unchanged, exactly when delta = 0 or
\* (delta < 0 and totalWeight + delta < weightCommitted); otherwise totalWeight becomes
\* totalWeight + delta and weightCommitted is unchanged.
C10_RejectedIffZeroOrNegativeBelow ==
    \A i \in 1 .. Len(deliveries) :
        AdjustDelivery(i) =>
            LET m == deliveries[i].event.materialId
                delta == convertedQuantity(deliveries[i].event)
                before == StoreBefore(i)
                refused == \/ delta = 0
                           \/ delta < 0 /\ BelowCommitted(before.material[m], delta)
            IN  /\ (deliveries[i].status = 400) <=> refused
                /\ refused =>
                       /\ deliveries[i].material = before.material
                       /\ deliveries[i].stockMovement = before.stockMovement
                /\ ~refused =>
                       /\ deliveries[i].material[m].totalWeight =
                              before.material[m].totalWeight + delta
                       /\ deliveries[i].material[m].weightCommitted =
                              before.material[m].weightCommitted

\* A negative adjustment the total weight alone could absorb has been rejected because
\* of the committed weight.
C10_Witness ==
    \E i \in 1 .. Len(deliveries) :
        /\ AdjustDelivery(i)
        /\ deliveries[i].status = 400
        /\ LET row == StoreBefore(i).material[deliveries[i].event.materialId]
               delta == convertedQuantity(deliveries[i].event)
           IN  /\ delta < 0
               /\ row.weightCommitted > 0
               /\ row.totalWeight + delta >= 0
               /\ row.totalWeight + delta < row.weightCommitted

\* ------------------------------------------ vocabulary of the claims (continued)
\* The events of the order webhooks, the legacy /webhooks/orders/cancel route included.
OrderKinds == {"paid", "fulfilled", "cancelled", "cancel"}

\* The movements the i-th answered request appended to the log of material m, when
\* requests are handled one at a time.
Appended(i, m) ==
    SubSeq(deliveries[i].stockMovement[m],
           Len(StoreBefore(i).stockMovement[m]) + 1,
           Len(deliveries[i].stockMovement[m]))

\* Two runs of movements are for the same variants and the same weights, in order.
SameWeights(a, b) ==
    /\ Len(a) = Len(b)
    /\ \A k \in 1 .. Len(a) :
           /\ a[k].variantId = b[k].variantId
           /\ a[k].quantityChange = b[k].quantityChange

RECURSIVE OrderWeightOn(_, _)
\* The weight a payload's line items take of material m: consumptionRequirement *
\* quantity, summed over the items whose variant is linked to m.
OrderWeightOn(items, m) ==
    IF items = << >>
    THEN 0
    ELSE LET rows == {r \in FindMany(Head(items).variant_id) : r.materialId = m}
         IN  (IF rows = {}
              THEN 0
              ELSE (CHOOSE r \in rows : TRUE).consumptionRequirement * Head(items).quantity)
             + OrderWeightOn(Tail(items), m)

RECURSIVE OrderItemsOn(_, _)
\* The number of a payload's line items whose variant is linked to m.
OrderItemsOn(items, m) ==
    IF items = << >>
    THEN 0
    ELSE (IF \E r \in FindMany(Head(items).variant_id) : r.materialId = m THEN 1 ELSE 0)
         + OrderItemsOn(Tail(items), m)

\* The pairs the handler of task t hands to the catalog in this step.
HandedNow(t) ==
    SubSeq(task'[t].handed, Len(task[t].handed) + 1, Len(task'[t].handed))

\* The weight of material m that is not committed.
Available(m) == material[m].totalWeight - material[m].weightCommitted

\* --------------------------------------------------------- claims (continued)

\* C11: an accepted order-paid commit of weight w followed by an order-cancelled restore
\* of the same weight w, with no other operation on the Material in between, returns
\* weightCommitted to its value before the commit.
C11_CommitThenRestore ==
    \A i \in 1 .. Len(deliveries) - 1 :
        \A m \in Materials :
            ( /\ deliveries[i].event.kind = "paid"
              /\ deliveries[i + 1].event.kind = "cancelled"
              /\ SameWeights(Appended(i, m), Appended(i + 1, m)) ) =>
                deliveries[i + 1].material[m].weightCommitted =
                    StoreBefore(i).material[m].weightCommitted

\* A commit of positive weight has been restored by the cancellation that followed it.
C11_Witness ==
    \E i \in 1 .. Len(deliveries) - 1 :
        \E m \in Materials :
            /\ deliveries[i].event.kind = "paid"
            /\ deliveries[i + 1].event.kind = "cancelled"
            /\ Len(Appended(i, m)) > 0
            /\ SameWeights(Appended(i, m), Appended(i + 1, m))
            /\ Appended(i, m)[1].type = "ORDER_CREATED"
            /\ Appended(i, m)[1].quantityChange > 0
            /\ Appended(i + 1, m)[1].type = "CANCELLED"
            /\ deliveries[i].material[m].weightCommitted >
                   StoreBefore(i).material[m].weightCommitted

\* C12: totalWeight is changed only by order fulfilment and manual adjustment: no step
\* of a handler of an order-paid or order-cancelled event changes any Material's
\* totalWeight, whatever else runs concurrently.
C12_TotalWeightFrame ==
    [][\A t \in Tasks :
          ( /\ task'[t] # task[t]
            /\ task'[t].event.kind \in {"paid", "cancelled", "cancel"} ) =>
              \A m \in Materials : material'[m].totalWeight = material[m].totalWeight]_vars

\* A commit and a restore of positive weight are both in a Material's log, and its
\* totalWeight is the registered one.
C12_Witness ==
    \E m \in Materials :
        /\ \E k \in 1 .. Len(stockMovement[m]) :
               /\ stockMovement[m][k].type = "ORDER_CREATED"
               /\ stockMovement[m][k].quantityChange > 0
        /\ \E k \in 1 .. Len(stockMovement[m]) :
               /\ stockMovement[m][k].type = "CANCELLED"
               /\ stockMovement[m][k].quantityChange > 0
        /\ material[m].totalWeight = InitialMaterial[m].totalWeight

\* C13: two successive fulfilment events for the same order, of weights w1 and w2 on a
\* Material, reduce its totalWeight by w1 + w2 and its weightCommitted by the same
\* amount, and each event appends its own FULFILLMENT movements (one per line item).
C13_TwoFulfilments ==
    \A i \in 1 .. Len(deliveries) - 1 :
        \A m \in Materials :
            ( /\ deliveries[i].event.kind = "fulfilled"
              /\ deliveries[i + 1].event.kind = "fulfilled"
              /\ deliveries[i + 1].event.orderId = deliveries[i].event.orderId ) =>
                LET items == Orders[deliveries[i].event.orderId]
                    w1 == OrderWeightOn(items, m)
                    w2 == OrderWeightOn(items, m)
                    before == StoreBefore(i).material[m]
                    after == deliveries[i + 1].material[m]
                IN  /\ after.totalWeight = before.totalWeight - (w1 + w2)
                    /\ after.weightCommitted = before.weightCommitted - (w1 + w2)
                    /\ Len(Appended(i, m)) = OrderItemsOn(items, m)
                    /\ Len(Appended(i + 1, m)) = OrderItemsOn(items, m)
                    /\ \A k \in 1 .. Len(Appended(i, m)) :
                           Appended(i, m)[k].type = "FULFILLMENT"
                    /\ \A k \in 1 .. Len(Appended(i + 1, m)) :
                           Appended(i + 1, m)[k].type = "FULFILLMENT"

\* C14: when the handler of an order event hands a sellability verdict for a line item's
\* variant to the catalog, the verdict is true exactly when
\* totalWeight - weightCommitted >= the variant's consumptionRequirement, with the
\* counters as the item's update left them.
C14_PushedVerdict ==
    [][\A t \in Tasks :
          (task[t].pc = "catalog" /\ Len(HandedNow(t)) > 0) =>
              \A k \in 1 .. Len(HandedNow(t)) :
                  HandedNow(t)[k].availableForSale =
                      (Available(task[t].link.materialId)
                           >= task[t].link.consumptionRequirement)]_vars

\* C15: when the handler of an order event has updated a Material for a line item, it
\* hands a sellability verdict to the catalog for every MaterialVariant linked to that
\* Material before it goes on to the next line item.
C15_EverySiblingHanded ==
    [][\A t \in Tasks :
          (task[t].pc \in {"update", "catalog"} /\ task'[t].pc = "loop") =>
              \A r \in materialVariant :
                  r.materialId = task[t].link.materialId =>
                      \E k \in 1 .. Len(HandedNow(t)) :
                          HandedNow(t)[k].variantId = r.variantId]_vars

\* C16: when a line item of an order event fails (it is pushed on skippedItems, or the
\* request is answered with an error), the handler goes on with the remaining line
\* items, and the counters, the movement log and the items already processed stay as
\* they were.
C16_FailureIsolated ==
    [][\A t \in Tasks :
          ( /\ task[t].event.kind \in OrderKinds
            /\ task[t].pc \notin {"idle", "done"}
            /\ task[t].lineItems # << >>
            /\ \/ Len(task'[t].skippedItems) > Len(task[t].skippedItems)
               \/ task'[t].status = 500 ) =>
              /\ task'[t].pc = "loop"
              /\ task'[t].lineItems = Tail(task[t].lineItems)
              /\ task'[t].processedItems = task[t].processedItems
              /\ material' = material
              /\ stockMovement' = stockMovement]_vars

\* C17: every authenticated order event (paid, fulfilled, cancelled) is answered with
\* HTTP 200, whether or not a line item failed.
C17_AlwaysAcknowledged ==
    \A i \in 1 .. Len(deliveries) :
        deliveries[i].event.kind \in OrderKinds => deliveries[i].status = 200

\* C18: in updateShopifyInventory the quantity write is attempted at most 3 times per
\* call; after a concurrency conflict on the third attempt the call has ended and
\* reported failure (inventoryUpdated: false).
C18_AtMostThreeWrites ==
    /\ Len(sync.attempts) <= MAX_RETRIES
    /\ ( /\ Len(sync.attempts) = MAX_RETRIES
         /\ sync.attempts[MAX_RETRIES] = "concurrent" ) =>
           /\ sync.pc = "returned"
           /\ sync.result.inventoryUpdated = FALSE

\* Three writes in a row met a concurrency conflict, with back-offs of 1 and 2 seconds.
C18_Witness ==
    /\ sync.attempts = << "concurrent", "concurrent", "concurrent" >>
    /\ sync.waits = << 1, 2 >>
    /\ sync.pc = "returned"
    /\ sync.result.inventoryUpdated = FALSE

\* C19: in updateShopifyInventory a quantity write that ends in an error other than a
\* concurrency conflict (userErrors without 'concurrent', or GraphQL errors) is the last
\* write of the call, and the call reports failure.
C19_NoRetryOnOtherErrors ==
    \A k \in 1 .. Len(sync.attempts) :
        sync.attempts[k] \in {"userErrors", "errors"} =>
            /\ k = Len(sync.attempts)
            /\ sync.pc = "returned"
            /\ sync.result.inventoryUpdated = FALSE

C21_RejectedFulfilmentLeavesNoTrace ==
    [][\A m \in Materials :
          ( /\ task[1].event.kind = "fulfilled"
            /\ \/ AtItem(1, "fulfilled", m)
               \/ task[1].pc = "update" /\ task[1].link.materialId = m
            /\ \/ ItemWeight(1) > material[m].weightCommitted
               \/ ItemWeight(1) > material[m].totalWeight
            /\ task'[1] # task[1] ) =>
              /\ material' = material
              /\ stockMovement' = stockMovement
              /\ task'[1].pc = "loop" =>
                     Len(task'[1].skippedItems) = Len(task[1].skippedItems) + 1]_vars


\* The counters of material m differ between the two states of a step.
CountersChange(m) ==
    \/ material'[m].totalWeight # material[m].totalWeight
    \/ material'[m].weightCommitted # material[m].weightCommitted

\* The step appends exactly one movement to material m's log and keeps the rest.
OneMovementAppended(m) ==
    /\ Len(stockMovement'[m]) = Len(stockMovement[m]) + 1
    /\ SubSeq(stockMovement'[m], 1, Len(stockMovement[m])) = stockMovement[m]

\* C22: every operation that changes a Material's totalWeight or weightCommitted (order
\* paid, fulfilled, cancelled, manual adjustment, material edit) appends exactly one
\* StockMovement for that Material; no counter changes without a movement.
C22_EveryCounterChangeLogged ==
    [][\A m \in Materials : CountersChange(m) => OneMovementAppended(m)]_vars


\* The step is the updateMaterial transaction of a material edit.
EditStep == \E t \in Tasks : task[t].pc = "editUpdate" /\ task'[t].pc # "editUpdate"

\* The handler taking the step writes material m from a row it read before another
\* handler changed it, so that the value it writes may be the one already stored.
StaleWrite(m) ==
    \E t \in Tasks :
        /\ task'[t] # task[t]
        /\ task[t].event.kind # "cancel"
        /\ task[t].link.materialId = m \/ task[t].event.materialId = m
        /\ task[t].currentMaterial # material[m]

\* C23: the counter update and its StockMovement are written atomically: no step of an
\* order handler or of a manual adjustment, under any interleaving and also when a
\* transaction fails between its two writes, leaves a Material's row changed without
\* exactly one movement appended, or a movement appended without the row written.
C23_LedgerWriteAtomic ==
    [][\A m \in Materials :
          ~EditStep =>
              /\ material'[m] # material[m] => stockMovement'[m] # stockMovement[m]
              /\ stockMovement'[m] # stockMovement[m] =>
                     /\ OneMovementAppended(m)
                     /\ material'[m] # material[m] \/ StaleWrite(m)]_vars

\* Two handlers have each written a counter together with its movement.
C23_Witness ==
    \E m \in Materials :
        /\ Len(stockMovement[m]) = 3
        /\ material[m] # InitialMaterial[m]
        /\ \E i \in DOMAIN deliveries : deliveries[i].event.kind = "cancel"


\* C29: a material edit that would set totalWeight below the Material's current
\* weightCommitted is rejected with a validation error and leaves the Material, its
\* variant links and its movements unchanged.
C29_EditBelowCommittedRejected ==
    [][( /\ task[1].pc = "editUpdate"
         /\ task[1].event.materialId \in Materials
         /\ task[1].event.totalWeight < material[task[1].event.materialId].weightCommitted
         /\ task'[1] # task[1] ) =>
           /\ material' = material
           /\ materialVariant' = materialVariant
           /\ stockMovement' = stockMovement
           /\ task'[1].status = 400]_vars


\* The line item the handler of task t is about to look up has no MaterialVariant row.
AtUnlinkedItem(t) ==
    /\ task[t].pc = "loop"
    /\ task[t].event.kind \in OrderKinds
    /\ task[t].lineItems # << >>
    /\ \A r \in materialVariant : r.variantId # CurrentItem(t).variant_id

\* C28: a line item whose variant has no MaterialVariant link changes no Material
\* counter, writes no movement, makes no catalog call, and is not reported as skipped
\* or failed: the handler moves on to the next line item.
C28_UnlinkedItemIsNoOp ==
    [][(AtUnlinkedItem(1) /\ task'[1] # task[1]) =>
           /\ material' = material
           /\ stockMovement' = stockMovement
           /\ availableForSale' = availableForSale
           /\ sync' = sync
           /\ task'[1] = [task[1] EXCEPT !.lineItems = Tail(@)]]_vars

\* Order 3 (an unlinked variant, then v3 x 2) was handled: one item processed, none skipped.
C28_Witness ==
    /\ task[1].pc = "done"
    /\ task[1].event.orderId = 3
    /\ task[1].status = 200
    /\ Len(task[1].processedItems) = 1
    /\ task[1].skippedItems = << >>


\* C26: Catalog Sync writes target quantity 0 when the variant is not sellable and 1 when
\* it is sellable, and every write carries as compare token the catalog quantity read in
\* step 2 of the same call (0 when no inventory level existed).
C26_TargetAndCompareToken ==
    \A i \in DOMAIN sync.writes :
        /\ sync.writes[i].quantity = (IF sync.isOutOfStock THEN 0 ELSE 1)
        /\ sync.writes[i].compareQuantity = (IF sync.level = {} THEN 0 ELSE CHOOSE q \in sync.level : TRUE)

\* A call for a variant out of stock found a level with quantity 1 and wrote twice.
C26_Witness ==
    /\ sync.isOutOfStock
    /\ sync.level = {1}
    /\ Len(sync.writes) = 2
    /\ sync.quantity[sync.variantId] = 0

\* C27: when no inventory level exists, an activation answer of 'already exists' or
\* 'already active' is treated as success and the call proceeds to the quantity write;
\* any other activation error ends the call with failure and no quantity write is
\* attempted.
C27_ActivationAnswers ==
    /\ sync.activation \in {"alreadyExists", "alreadyActive"} =>
           sync.pc = "write" \/ sync.writes # << >>
    /\ sync.activation \in {"userErrors", "errors", "throws"} =>
           /\ sync.pc = "returned"
           /\ ~sync.result.inventoryUpdated
           /\ sync.writes = << >>

\* With no level, the activation answered 'already active' and the write went through.
C27_Witness ==
    /\ sync.level = {}
    /\ sync.activation = "alreadyActive"
    /\ sync.pc = "returned"
    /\ sync.result.inventoryUpdated


\* The ledger transaction of task t's current line item is open: its writes are issued
\* and not yet committed.
OpenTransaction(t) == task[t].pc = "processSync"

\* C24: for each (Material, event), the first catalog call of Catalog Sync is issued only
\* after the ledger transaction that wrote the counters and the movement has committed.
C24_CatalogCallAfterCommit ==
    [][(sync.pc = "fetch" /\ sync'.pc # "fetch") =>
           \A t \in Tasks : ~OpenTransaction(t)]_vars


\* What the i-th answered request listed as processed for variant v.
ProcessedFor(i, v) ==
    { k \in DOMAIN deliveries[i].processedItems :
        deliveries[i].processedItems[k].variantId = v }

\* The i-th request changed the ledger for variant v and its catalog sync failed.
SyncFailed(i, v) ==
    \E k \in ProcessedFor(i, v) : ~deliveries[i].processedItems[k].inventoryUpdated

\* The i-th request was processed for variant v with a successful sync.
SyncSucceeded(i, v) ==
    /\ ProcessedFor(i, v) # {}
    /\ \A k \in ProcessedFor(i, v) : deliveries[i].processedItems[k].inventoryUpdated

\* 1 when the material's balance covers the variant's consumptionRequirement, else 0.
Verdict(M, v) ==
    LET link == CHOOSE r \in materialVariant : r.variantId = v
    IN  IF M[link.materialId].runningBalance >= link.consumptionRequirement THEN 1 ELSE 0

\* C25: if Catalog Sync fails for a variant after a ledger mutation, then once the next
\* event affecting that variant's Material has been processed with a successful sync,
\* the catalog quantity for that variant equals the verdict computed from the Material's
\* current counters (1 when available >= consumptionRequirement, otherwise 0).
C25_ReconciledOnNextEvent ==
    \A i \in 1 .. Len(deliveries) - 1 :
        \A v \in LinkedVariants :
            (SyncFailed(i, v) /\ SyncSucceeded(i + 1, v)) =>
                deliveries[i + 1].quantity[v] = Verdict(deliveries[i + 1].material, v)


\* The i-th answered request registered a material.
Registered(i) ==
    /\ deliveries[i].event.kind = "create"
    /\ deliveries[i].status = 302

\* C30: registering a material (createMaterial) yields a Material with weightCommitted = 0
\* and exactly one movement, of kind INITIAL, whose quantityChange and remainingStock
\* both equal the registered totalWeight.
C30_RegisteredMaterial ==
    \A i \in DOMAIN deliveries :
        Registered(i) =>
            LET id == deliveries[i].event.materialId
                totalWeight == deliveries[i].event.totalWeight
                row == deliveries[i].material[id]
                log == deliveries[i].stockMovement[id]
            IN  /\ row.totalWeight = totalWeight
                /\ row.weightCommitted = 0
                /\ Len(log) = 1
                /\ log[1].type = "INITIAL"
                /\ log[1].quantityChange = totalWeight
                /\ log[1].remainingStock = totalWeight

\* A material of weight 5 with a linked variant was registered after a registration
\* that was rolled back.
C30_Witness ==
    /\ Len(deliveries) = 2
    /\ deliveries[1].status = 400
    /\ Registered(2)
    /\ deliveries[2].event.totalWeight = 5
    /\ deliveries[2].event.selectedVariants # << >>
    /\ DOMAIN material = Materials \cup {"m3"}


\* ------------------------------------------------- claims (fourth part)
\* The log a is kept, entry for entry, at the front of the log b.
IsPrefix(a, b) == Len(a) <= Len(b) /\ SubSeq(b, 1, Len(a)) = a

\* C31: the movement log of a Material is append-only: no order-lifecycle handler,
\* manual adjustment, material edit or catalog sync modifies or deletes an existing
\* StockMovement; only a compliance erasure request may delete movements.
C31_LogAppendOnly ==
    [][\A m \in Materials :
          (\A t \in Tasks : task'[t].event.kind # "SHOP_REDACT" \/ task'[t] = task[t]) =>
              IsPrefix(stockMovement[m], stockMovement'[m])]_vars

\* All requests are answered and m1's log holds the INITIAL movement and two of
\* different kinds, in the order they were written.
C31_Witness ==
    /\ Len(stockMovement["m1"]) = 3
    /\ stockMovement["m1"][2].type # stockMovement["m1"][3].type
    /\ InFlight = {}


\* C32: in every reachable state each external variantId is linked to at most one
\* Material: registering or editing a material with a variant already linked to another
\* Material does not produce a second link for that variant.
C32_OneLinkPerVariant ==
    \A r1, r2 \in materialVariant : r1.variantId = r2.variantId => r1 = r2

\* The i-th answered request asked for a link of variant v and was refused.
LinkRefused(i, v) ==
    /\ deliveries[i].event.kind \in {"create", "edit"}
    /\ deliveries[i].status = 400
    /\ \E k \in DOMAIN deliveries[i].event.selectedVariants :
          deliveries[i].event.selectedVariants[k].id = v

\* A new material was registered with variant v9, and an edit of m1 that selected v9 as
\* well was refused: v9 is linked to the new material only.
C32_Witness ==
    /\ Len(deliveries) = 2
    /\ Registered(1)
    /\ deliveries[2].event.kind = "edit"
    /\ LinkRefused(2, "v9")
    /\ \E r \in materialVariant : r.variantId = "v9" /\ r.materialId = "m3"


\* const availableWeight = material.totalWeight - material.weightCommitted
availableWeight(row) == row.totalWeight - row.weightCommitted

\* getMaterialStatus of the materials index: out of stock at or under zero, low stock
\* at or under a threshold that is set and not zero.
getMaterialStatus(row) ==
    IF availableWeight(row) <= 0
    THEN "OUT_OF_STOCK"
    ELSE IF /\ row.threshold # {}
            /\ ThresholdOr0(row.threshold) # 0
            /\ availableWeight(row) <= ThresholdOr0(row.threshold)
         THEN "LOW_STOCK"
         ELSE "IN_STOCK"

\* The badge of the materials list: "Out of Stock" at or under (threshold || 0),
\* "Low Stock" at or under (threshold || 0) * 1.2, "In Stock" otherwise.  With whole
\* weights a <= t * 1.2 is 5 * a <= 6 * t.
ListBadge(row) ==
    IF availableWeight(row) <= ThresholdOr0(row.threshold)
    THEN "OUT_OF_STOCK"
    ELSE IF 5 * availableWeight(row) <= 6 * ThresholdOr0(row.threshold)
         THEN "LOW_STOCK"
         ELSE "IN_STOCK"

\* The low-stock banner of the material's page.
LowStockBanner(row) == availableWeight(row) <= ThresholdOr0(row.threshold)

\* C33: a Material's stock state is a function of its current totalWeight,
\* weightCommitted and threshold alone: it is low-stock exactly when available =
\* totalWeight - weightCommitted <= threshold, and getMaterialStatus, the list badge and
\* the low-stock banner give the same state for the same counters.
C33_OneStockState ==
    \A m \in Materials :
        /\ getMaterialStatus(material[m]) = ListBadge(material[m])
        /\ LowStockBanner(material[m]) <=> getMaterialStatus(material[m]) # "IN_STOCK"
        /\ material[m].threshold # {} =>
               (getMaterialStatus(material[m]) # "IN_STOCK"
                    <=> availableWeight(material[m]) <= ThresholdOr0(material[m].threshold))


\* C34: in updateShopifyInventory, if the first compare-and-set write fails with a
\* concurrency conflict because the catalog quantity differs from the value read in
\* step 2, and the catalog quantity then stays unchanged, a later attempt within the
\* retry bound succeeds and the call returns inventoryUpdated = true.
C34_RetryAfterConflictSucceeds ==
    ( /\ sync.pc = "returned"
      /\ sync.writes # << >>
      /\ sync.attempts[1] = "concurrent"
      /\ sync.writes[1].actual # sync.writes[1].compareQuantity
      /\ \A i \in DOMAIN sync.writes : sync.writes[i].actual = sync.writes[1].actual
      /\ sync.quantity[sync.variantId] = sync.writes[1].actual ) =>
        sync.result.inventoryUpdated


\* The movement a live handler (orders/create, orders/fulfilled, orders/cancelled, manual
\* adjustment) appends to the log of m in this step, if any: these carry an orderId or are
\* adjustments, the movements of the services file carry neither.
LiveMovementAppended(m) ==
    /\ Len(stockMovement'[m]) = Len(stockMovement[m]) + 1
    /\ LET movement == stockMovement'[m][Len(stockMovement'[m])]
       IN  movement.type = "ADJUSTMENT" \/ movement.orderId # 0

\* C35: every StockMovement's remainingStock equals the Material's totalWeight immediately
\* after the transition that wrote it, for every movement kind and under any interleaving
\* of handlers on the same Material.
C35_RemainingStockIsTotalWeight ==
    [][\A m \in Materials :
          LiveMovementAppended(m) =>
              stockMovement'[m][Len(stockMovement'[m])].remainingStock = material'[m].totalWeight]_vars


\* The variants the handler of task t has pushed on a list of outcomes.
VariantsOf(items) == { items[k].variantId : k \in DOMAIN items }

\* C36: in each order event handler the processed and skipped outcome lists are disjoint
\* per line item: a line item whose ledger mutation was committed is reported as processed
\* and never also as skipped, and a skipped line item has no committed ledger mutation.
C36_ProcessedAndSkippedDisjoint ==
    \A t \in Tasks :
        task[t].event.kind \in OrderKinds =>
            VariantsOf(task[t].processedItems) \cap VariantsOf(task[t].skippedItems) = {}


\* A call of createMaterial is answered in this step with a failure.
CreateFails ==
    /\ Len(deliveries') = Len(deliveries) + 1
    /\ deliveries'[Len(deliveries')].event.kind = "create"
    /\ deliveries'[Len(deliveries')].status = 400

\* C37: createMaterial is all-or-nothing: if creating any variant link or the INITIAL
\* movement fails, no Material row, no variant link and no movement from that call
\* remain in the store.
C37_CreateAllOrNothing ==
    [][CreateFails =>
          /\ material' = material
          /\ materialVariant' = materialVariant
          /\ stockMovement' = stockMovement]_vars

\* A registration that selected v1, which m1 already holds, was refused, and the store
\* holds the materials, links and logs it held at the start.
C37_Witness ==
    /\ \E i \in DOMAIN deliveries :
          /\ deliveries[i].event.kind = "create"
          /\ deliveries[i].status = 400
          /\ deliveries[i].event.selectedVariants # << >>
          /\ deliveries[i].event.selectedVariants[1].id = "v1"
          /\ deliveries[i].event.totalWeight = 3
    /\ DOMAIN material = Materials
    /\ materialVariant = MaterialVariantRows


\* The steps of a call of updateShopifyInventory that has not returned.
SyncSteps == {"fetch", "level", "activate", "write"}

\* C38: updateShopifyInventory never propagates an exception to its caller: any failure
\* while resolving the inventory item and location, reading the level, activating, or
\* writing the quantity yields the result {inventoryUpdated: false, error} with
\* isOutOfStock equal to the flag passed in, and success yields inventoryUpdated = true
\* with the same flag.
C38_SyncNeverThrows ==
    [][sync.pc \in SyncSteps =>
          /\ sync'.pc \in SyncSteps \cup {"returned"}
          /\ sync'.pc = "returned" =>
                LET written == /\ sync'.attempts # << >>
                               /\ sync'.attempts[Len(sync'.attempts)] = "ok"
                IN  /\ sync'.result.isOutOfStock = sync.isOutOfStock
                    /\ sync'.result.inventoryUpdated <=> written
                    /\ sync'.result.inventoryUpdated => sync'.result.error = NULL
                    /\ ~sync'.result.inventoryUpdated => sync'.result.error # NULL]_vars

\* A call for an out-of-stock variant whose three writes failed, the last with a thrown
\* error, has returned the failure with the flag it was given.
C38_Witness ==
    /\ sync.pc = "returned"
    /\ sync.isOutOfStock
    /\ sync.attempts = << "userErrors", "errors", "throws" >>
    /\ sync.result = [inventoryUpdated |-> FALSE, isOutOfStock |-> TRUE, error |-> "throws"]

====
